---- MODULE Spec2Model ----
(***************************************************************************)
(* Model of the "tela" AI companion: the workflow graph built in           *)
(* graph/graph.py, the Chainlit and Telegram front-ends that run it        *)
(* against the per-thread checkpoint store, and the schedule look-up of    *)
(* modules/schedules/context_generation.py.                                *)
(*                                                                         *)
(* graph/nodes.py, graph/edges.py and settings.py are not part of the      *)
(* sources at hand; the node functions, the two routing functions and the  *)
(* summary trigger are modelled from the written specification and are     *)
(* marked as such where they are defined.                                  *)
(*                                                                         *)
(* A graph run is followed stage by stage over the tables the builder is   *)
(* left with; a reference to a name under which no node is registered      *)
(* fails the run at the moment it is followed.                             *)
(***************************************************************************)
EXTENDS Integers, Sequences, FiniteSets, TLC

(***************************************************************************)
(* Bounds of the model.                                                    *)
(***************************************************************************)
MaxTurns == 3         \* incoming messages over one behaviour
MaxTime == 2          \* times of day are the slots 0..MaxTime
MaxRanges == 1        \* time ranges in one day's schedule
NumDays == 2          \* weekdays followed: 0..NumDays-1
MaxPad == 2           \* whitespace characters at either end of a text
MaxLen == 4           \* characters of a text handed to the output parser
MaxChunks == 3        \* audio chunks received over one behaviour

\* Two Chainlit chat sessions (two browser tabs) that may be open.
Sessions == {"s1", "s2"}

VARIABLES
    SCHEDULE,       \* ScheduleContextGenerator.SCHEDULE
    last_call,      \* the latest get_current_activity call and its result
    kept_call,      \* one earlier call, remembered for comparison
    thread_id,      \* thread_id[s]: cl.user_session "thread_id" (0: not set)
    pc,             \* pc[s]: "idle", a node name, END or "error"
    turn_state,     \* turn_state[s]: the state the run of session s holds
    turn,           \* turn[s]: number of the message session s is handling
    trace,          \* trace[s]: node functions run so far in this turn
    classified,     \* classified[s]: what the classifier answered
    checkpoint,     \* checkpoint[t]: latest state saved for thread t
    synthesized,    \* the latest TextToSpeech.synthesize call and its result
    generated,      \* the latest TextToImage call and its result
    parsed,         \* the latest AsteriskRemovalParser.parse call
    audio_buf,      \* cl.user_session "audio_buffer" (NoBuffer: not set)
    chunk_log,      \* the audio chunks received so far, in arrival order
    transcribed,    \* what the latest on_audio_end did with the buffer
    sent,           \* what the last step sent out ("none": nothing)
    turns,          \* incoming messages so far, over both front-ends
    outcome         \* outcome[k]: how the graph run of message k ended
                    \* ("": not ended, "not_run": no run was started)


(***************************************************************************)
(* Program constants.                                                      *)
(***************************************************************************)
CHAINLIT_THREAD_ID == 1     \* cl.user_session.set("thread_id", 1)
TelegramSenders == {2}      \* msg_dict["from"]["id"] of a Telegram user
ThreadIds == {CHAINLIT_THREAD_ID} \cup TelegramSenders

START == "__start__"
END == "__end__"

Labels == {"conversation", "image", "audio"}
\* RouterResponse.response_type is declared str: the classifier may answer
\* any string; "other" stands for every string outside the three labels.
RouterResponse == Labels \cup {"other"}

\* TOTAL_MESSAGES_SUMMARY_TRIGGER of settings.py (modelled from the spec's
\* "configured threshold").
SummaryTrigger == 4

(***************************************************************************)
(* AICompanionState: the fields of the turn state the model follows.       *)
(* A message is <<role, turn>>; audio_buffer and image_path hold 0 when    *)
(* unset and otherwise the number of the turn that produced the artifact.  *)
(***************************************************************************)
AICompanionState == [messages |-> <<>>, summary |-> "", workflow |-> "",
                     audio_buffer |-> 0, image_path |-> 0]

HumanMessage(k) == <<"human", k>>
AIMessage(k) == <<"ai", k>>

(***************************************************************************)
(* create_workflow_graph: the tables the builder is left with.             *)
(* Nodes maps a registered node name to the node function it runs.         *)
(***************************************************************************)
\* The conversation stage registered under a misspelt name.
Nodes_conversation_misnamed ==
    [memory_extraction_node |-> "memory_extraction_node",
     router_node            |-> "router_node",
     context_injection_node |-> "context_injection_node",
     memory_injection_node  |-> "memory_injection_node",
     conversation_mode      |-> "conversation_node",
     image_node             |-> "image_node",
     audio_mode             |-> "audio_node"]

Nodes == [memory_extraction_node |-> "memory_extraction_node",
          router_node            |-> "router_node",
          context_injection_node |-> "context_injection_node",
          memory_injection_node  |-> "memory_injection_node",
          conversation_node      |-> "conversation_node",
          image_node             |-> "image_node",
          audio_mode             |-> "audio_node"]

\* The edge into the context-injection stage drawn to the stage after it.
Edges_context_injection_skipped ==
    {<<START, "memory_extraction_node">>,
     <<"memory_extraction_node", "router_node">>,
     <<"router_node", "memory_injection_node">>,
     <<"context_injection_node", "memory_injection_node">>,
     <<"summarize_conversation_node", END>>}

Edges == {<<START, "memory_extraction_node">>,
          <<"memory_extraction_node", "router_node">>,
          <<"router_node", "context_injection_node">>,
          <<"context_injection_node", "memory_injection_node">>,
          <<"summarize_conversation_node", END>>}

Branches == [memory_injection_node |-> "select_workflow",
             conversation_node     |-> "should_summarize_conversation",
             image_node            |-> "should_summarize_conversation",
             audio_node            |-> "should_summarize_conversation"]

GenerationStages == {"conversation_node", "image_node", "audio_node"}

(***************************************************************************)
(* Routing functions (graph/edges.py, modelled from the spec).             *)
(***************************************************************************)
select_workflow(state) ==
    IF state.workflow = "image" THEN "image_node"
    ELSE IF state.workflow = "audio" THEN "audio_node"
    ELSE "conversation_node"

should_summarize_conversation(state) ==
    IF Len(state.messages) > SummaryTrigger
    THEN "summarize_conversation_node"
    ELSE END

(***************************************************************************)
(* Node functions (graph/nodes.py, modelled from the spec): the state      *)
(* update a stage returns, already merged into the state.                  *)
(***************************************************************************)
memory_extraction_node(state) == state

router_node(state, response_type) ==
    [state EXCEPT !.workflow = IF response_type \in Labels
                               THEN response_type
                               ELSE "conversation"]

context_injection_node(state) == state

memory_injection_node(state) == state

conversation_node(state, k) ==
    [state EXCEPT !.messages = Append(@, AIMessage(k))]

image_node(state, k) ==
    [state EXCEPT !.messages = Append(@, AIMessage(k)), !.image_path = k]

audio_node(state, k) ==
    [state EXCEPT !.messages = Append(@, AIMessage(k)), !.audio_buffer = k]

(***************************************************************************)
(* The graph run: one step runs the node function registered under the     *)
(* current node name, merges its update and follows the node's edge or     *)
(* branch.                                                                 *)
(***************************************************************************)
InvokeNode(fn, state, k, response_type) ==
    CASE fn = "memory_extraction_node" -> memory_extraction_node(state)
      [] fn = "router_node"            -> router_node(state, response_type)
      [] fn = "context_injection_node" -> context_injection_node(state)
      [] fn = "memory_injection_node"  -> memory_injection_node(state)
      [] fn = "conversation_node"      -> conversation_node(state, k)
      [] fn = "image_node"             -> image_node(state, k)
      [] fn = "audio_node"             -> audio_node(state, k)

InvokeBranch(path, state) ==
    IF path = "select_workflow" THEN select_workflow(state)
    ELSE should_summarize_conversation(state)

\* The name the graph goes to after node n has returned.
Successor(n, state) ==
    IF \E e \in Edges : e[1] = n
    THEN (CHOOSE e \in Edges : e[1] = n)[2]
    ELSE IF n \in DOMAIN Branches
    THEN InvokeBranch(Branches[n], state)
    ELSE END

\* Where a run stands after being sent to `target`: at END, at a registered
\* node, or failed because no node is registered under that name.
Goto(target) ==
    IF target = END THEN END
    ELSE IF target \in DOMAIN Nodes THEN target
    ELSE "error"

(***************************************************************************)
(* ScheduleContextGenerator.  A time of day is a slot number, a time range *)
(* "HH:MM-HH:MM" is the pair of its two slot numbers, a day's schedule is  *)
(* the sequence of its time ranges in the dict's order, and the activity   *)
(* of the i-th range is written i.                                        *)
(***************************************************************************)
Times == 0..MaxTime
Days == 0..(NumDays - 1)
TimeRanges == Times \X Times
NoActivity == 0

\* A day's schedule: a dict, so no time range occurs twice as a key.
DaySchedules ==
    {sch \in UNION {[1..n -> TimeRanges] : n \in 0..MaxRanges} :
        \A i, j \in DOMAIN sch : sch[i] = sch[j] => i = j}

\* The schedule tables followed: one weekday carries entries, the other
\* weekdays have an empty schedule.
ScheduleTables ==
    {[d \in Days |-> IF d = d0 THEN sch ELSE <<>>] :
        d0 \in Days, sch \in DaySchedules}

_parse_time_range(time_range) == <<time_range[1], time_range[2]>>

\* The test of one schedule entry against the current time.
RangeMatches(time_range, current_time) ==
    LET start_time == _parse_time_range(time_range)[1]
        end_time == _parse_time_range(time_range)[2]
    IN IF start_time > end_time
       THEN start_time <= current_time /\ current_time <= end_time
       ELSE start_time <= current_time /\ current_time <= end_time

\* The loop over schedule.items(), from entry i on.
RECURSIVE ScanSchedule(_, _, _)
ScanSchedule(schedule, i, current_time) ==
    IF i > Len(schedule) THEN NoActivity
    ELSE IF RangeMatches(schedule[i], current_time) THEN i
    ELSE ScanSchedule(schedule, i + 1, current_time)

\* A look-up that reports an activity only when it differs from the one the
\* previous call reported.
get_current_activity_only_changes(table, current_day, current_time) ==
    LET schedule == IF current_day \in DOMAIN table
                    THEN table[current_day] ELSE <<>>
        activity == ScanSchedule(schedule, 1, current_time)
    IN IF activity = last_call.activity THEN NoActivity ELSE activity

\* get_current_activity for a clock that reads weekday current_day and
\* time of day current_time (the two values lines 41-42 are after).
get_current_activity(table, current_day, current_time) ==
    LET schedule == IF current_day \in DOMAIN table
                    THEN table[current_day] ELSE <<>>
    IN ScanSchedule(schedule, 1, current_time)

NoCall == [day |-> -1, time |-> -1, activity |-> NoActivity]

(***************************************************************************)
(* Speech synthesis: modules/speech/text_to_speech.py.                     *)
(*                                                                         *)
(* A text is followed by what the checks of synthesize look at: the number *)
(* of whitespace characters it starts with, the length of what             *)
(* str.strip() leaves of it, and the number of whitespace characters it    *)
(* ends with.  A text of whitespace only has all its characters in `lead`. *)
(***************************************************************************)
MAX_TEXT_LENGTH == 5000     \* text_to_speech.py, line 48

CoreLengths ==
    (0..MaxPad) \cup {MAX_TEXT_LENGTH + d : d \in (0 - MaxPad - 1)..1}

Texts ==
    {t \in [lead : 0..MaxPad, core : CoreLengths, trail : 0..MaxPad] :
        t.core = 0 => t.trail = 0}

NoText == [lead |-> 0, core |-> -1, trail |-> 0]

\* len(text)
len(text) == text.lead + text.core + text.trail

\* text.strip()
strip(text) == [lead |-> 0, core |-> text.core, trail |-> 0]

\* What the ElevenLabs client answers to a convert call.
ConvertOutcomes == {"audio", "empty", "raises"}

NoSynthesis ==
    [text |-> NoText, raised |-> "", convert_text |-> NoText, audio |-> FALSE]

\* synthesize with the client called before the text is looked at.
synthesize_converts_first(text, convert) ==
    IF len(strip(text)) = 0 \/ len(text) > MAX_TEXT_LENGTH
    THEN [text |-> text, raised |-> "ValueError", convert_text |-> text,
          audio |-> FALSE]
    ELSE [text |-> text,
          raised |-> IF convert = "audio" THEN "" ELSE "TextToSpeechError",
          convert_text |-> text, audio |-> convert = "audio"]

\* synthesize with the length taken of the stripped text.
synthesize_measures_stripped(text, convert) ==
    IF len(strip(text)) = 0 \/ len(strip(text)) > MAX_TEXT_LENGTH
    THEN [text |-> text, raised |-> "ValueError", convert_text |-> NoText,
          audio |-> FALSE]
    ELSE [text |-> text,
          raised |-> IF convert = "audio" THEN "" ELSE "TextToSpeechError",
          convert_text |-> strip(text), audio |-> convert = "audio"]

\* TextToSpeech.synthesize: the two checks raise ValueError ahead of the try
\* block; inside it the client is given the text as it came, and an empty
\* answer or any exception of the client leaves as TextToSpeechError.
synthesize(text, convert) ==
    IF len(strip(text)) = 0
    THEN [text |-> text, raised |-> "ValueError", convert_text |-> NoText,
          audio |-> FALSE]
    ELSE IF len(text) > MAX_TEXT_LENGTH
    THEN [text |-> text, raised |-> "ValueError", convert_text |-> NoText,
          audio |-> FALSE]
    ELSE [text |-> text,
          raised |-> IF convert = "audio" THEN "" ELSE "TextToSpeechError",
          convert_text |-> text, audio |-> convert = "audio"]

(***************************************************************************)
(* Image generation: modules/image/text_to_image.py.                       *)
(***************************************************************************)
\* Prompts: blank ones, and short ones with and without whitespace around.
Prompts == {t \in Texts : t.core <= 1}

\* Where generate_image is asked to save the image: nowhere, or at a path.
OutputPaths == {"", "generated_images/image.png"}

\* What the image client answers: an exception, a response without data, a
\* response whose payload decodes to no bytes, a response with an image.
ImageResponses == {"raises", "no_data", "empty", "image"}

\* What the language model would answer to the scenario chain.
ScenarioAnswers == {"raises", "empty_prompt", "scenario"}

NoGeneration ==
    [op |-> "", prompt |-> NoText, output_path |-> "", answer |-> "",
     raised |-> "", returned |-> "nothing", called |-> FALSE,
     file_written |-> FALSE]

\* base64.b64decode(response.data[0].b64_json)
b64decode(response) == IF response = "image" THEN "bytes" ELSE "empty_bytes"

\* generate_image with the prompt looked at inside the try block, after the
\* client call and the save.
generate_image_checks_last(prompt, output_path, response) ==
    LET call == [op |-> "generate_image", prompt |-> prompt,
                 output_path |-> output_path, answer |-> response,
                 raised |-> "TextToImageError", returned |-> "nothing",
                 called |-> TRUE, file_written |-> FALSE]
    IN IF response \in {"raises", "no_data"} THEN call
       ELSE IF output_path # "" THEN [call EXCEPT !.file_written = TRUE]
       ELSE IF len(strip(prompt)) = 0 THEN call
       ELSE [call EXCEPT !.raised = "", !.returned = b64decode(response)]

\* TextToImage.generate_image: a blank prompt raises ValueError ahead of the
\* try block.  Inside it the client is called and the payload decoded; with
\* an output path the file is written and the statement after the write
\* calls the logger object itself, which raises; whatever is raised inside
\* the block leaves as TextToImageError.  The decoded bytes are returned as
\* they are.
generate_image(prompt, output_path, response) ==
    LET call == [op |-> "generate_image", prompt |-> prompt,
                 output_path |-> output_path, answer |-> response,
                 raised |-> "TextToImageError", returned |-> "nothing",
                 called |-> TRUE, file_written |-> FALSE]
    IN IF len(strip(prompt)) = 0
       THEN [call EXCEPT !.raised = "ValueError", !.called = FALSE]
       ELSE IF response \in {"raises", "no_data"} THEN call
       ELSE IF output_path # "" THEN [call EXCEPT !.file_written = TRUE]
       ELSE [call EXCEPT !.raised = "", !.returned = b64decode(response)]

\* TextToImage.create_scenario: formatting the last messages may raise, which
\* leaves as TextToImageError; chain.ainvoke is called without await, so the
\* coroutine is returned as it is and the language model has not been asked
\* when the function returns.
create_scenario(history_ok, answer) ==
    [op |-> "create_scenario", prompt |-> NoText, output_path |-> "",
     answer |-> answer,
     raised |-> IF history_ok THEN "" ELSE "TextToImageError",
     returned |-> IF history_ok THEN "coroutine" ELSE "nothing",
     called |-> FALSE, file_written |-> FALSE]

(***************************************************************************)
(* The output parser of the conversation chain: graph/utils/helpers.py.    *)
(* A text is a sequence of characters.                                     *)
(***************************************************************************)
Chars == {"*", "a", " ", "\n"}

Whitespace == {" ", "\n"}

Strings == UNION {[1..n -> Chars] : n \in 0..MaxLen}

NoParse == [text |-> <<>>, result |-> <<>>, called |-> FALSE]

\* Where the pattern \*.*?\* matched at a text that starts with an asterisk
\* ends: at the nearest later asterisk with no line break before it (the dot
\* matches no line break); 0 if there is none.
MatchEnd(text) ==
    LET ends == {j \in 2..Len(text) :
                    /\ text[j] = "*"
                    /\ \A k \in 2..(j - 1) : text[k] \notin {"*", "\n"}}
    IN IF ends = {} THEN 0 ELSE CHOOSE j \in ends : TRUE

RECURSIVE re_sub(_)
\* re.sub(r"\*.*?\*", "", text): the matches are found from left to right,
\* none overlapping another, and each is replaced by nothing.
re_sub(text) ==
    IF text = <<>> THEN <<>>
    ELSE IF Head(text) = "*" /\ MatchEnd(text) # 0
    THEN re_sub(SubSeq(text, MatchEnd(text) + 1, Len(text)))
    ELSE <<Head(text)>> \o re_sub(Tail(text))

RECURSIVE lstrip(_)
lstrip(text) ==
    IF text # <<>> /\ Head(text) \in Whitespace THEN lstrip(Tail(text))
    ELSE text

RECURSIVE rstrip(_)
rstrip(text) ==
    IF text # <<>> /\ text[Len(text)] \in Whitespace
    THEN rstrip(SubSeq(text, 1, Len(text) - 1))
    ELSE text

\* str.strip() of a character sequence
str_strip(text) == rstrip(lstrip(text))

\* remove_asterisk_content without the final strip().
remove_asterisk_content_unstripped(text) == re_sub(text)

\* remove_asterisk_content(text)
remove_asterisk_content(text) == str_strip(re_sub(text))

\* AsteriskRemovalParser.parse: StrOutputParser.parse hands the text on as
\* it is.
parse(text) == remove_asterisk_content(text)

(***************************************************************************)
(* Audio recording in a Chainlit session: interfaces/chainlit/app.py,      *)
(* on_audio_chunk and on_audio_end.  The data of a chunk is one of         *)
(* ChunkData; a buffer is the sequence of the data written to it.          *)
(***************************************************************************)
ChunkData == {1, 2}

NoBuffer == <<0>>

NoTranscription == [audio_data |-> <<>>, raised |-> "", reply |-> "none"]

sched_vars == <<SCHEDULE, last_call, kept_call>>

front_vars == <<thread_id, pc, turn_state, turn, trace, classified,
                checkpoint, sent, turns, outcome>>

\* The state of the speech, image and text modules and of the Chainlit audio
\* recording, which the specifications of those modules follow.
module_vars == <<synthesized, generated, parsed, audio_buf, chunk_log,
                 transcribed>>

vars == <<SCHEDULE, last_call, kept_call, thread_id, pc, turn_state, turn, trace,
          classified, checkpoint, sent, turns, outcome, synthesized, generated,
          parsed, audio_buf, chunk_log, transcribed>>

InitFrontEnds ==
    /\ thread_id = [s \in Sessions |-> 0]
    /\ pc = [s \in Sessions |-> "idle"]
    /\ turn_state = [s \in Sessions |-> AICompanionState]
    /\ turn = [s \in Sessions |-> 0]
    /\ trace = [s \in Sessions |-> <<>>]
    /\ classified = [s \in Sessions |-> ""]
    /\ checkpoint = [t \in ThreadIds |-> AICompanionState]
    /\ sent = "none"
    /\ turns = 0
    /\ outcome = [k \in 1..MaxTurns |-> ""]

\* No module has been called and no recording has been started.
InitModules ==
    /\ synthesized = NoSynthesis
    /\ generated = NoGeneration
    /\ parsed = NoParse
    /\ audio_buf = NoBuffer
    /\ chunk_log = <<>>
    /\ transcribed = NoTranscription

InitSchedules ==
    /\ SCHEDULE = [d \in Days |-> <<>>]
    /\ last_call = NoCall
    /\ kept_call = NoCall

Init ==
    /\ InitFrontEnds
    /\ InitModules
    /\ SCHEDULE = [d \in Days |-> <<>>]
    /\ last_call = NoCall
    /\ kept_call = NoCall

\* How a run that has just been sent to `target` ends, if it ends there.
RunOutcome(target) ==
    IF Goto(target) = END THEN END
    ELSE IF Goto(target) = "error" THEN "error"
    ELSE ""

(***************************************************************************)
(* Chainlit front-end.                                                     *)
(***************************************************************************)
on_chat_start(s) ==
    /\ thread_id[s] = 0
    /\ thread_id' = [thread_id EXCEPT ![s] = CHAINLIT_THREAD_ID]
    /\ sent' = "none"
    /\ UNCHANGED <<sched_vars, module_vars, pc, turn_state, turn, trace, classified,
                   checkpoint, turns, outcome>>

\* on_message up to the first stage: the graph is compiled over the
\* checkpointer, the state saved for the thread is read, the incoming
\* message is appended and the run stands at the node START leads to.
on_message_begin(s) ==
    /\ thread_id[s] # 0
    /\ pc[s] = "idle"
    /\ turns < MaxTurns
    /\ LET k == turns + 1
           t == thread_id[s]
           st == [checkpoint[t] EXCEPT
                     !.messages = Append(@, HumanMessage(k))]
       IN /\ turns' = k
          /\ turn' = [turn EXCEPT ![s] = k]
          /\ turn_state' = [turn_state EXCEPT ![s] = st]
          /\ checkpoint' = [checkpoint EXCEPT ![t] = st]
          /\ pc' = [pc EXCEPT ![s] = Goto(Successor(START, st))]
          /\ outcome' = [outcome EXCEPT ![k] = RunOutcome(Successor(START, st))]
          /\ trace' = [trace EXCEPT ![s] = <<>>]
          /\ classified' = [classified EXCEPT ![s] = ""]
    /\ sent' = "none"
    /\ UNCHANGED <<sched_vars, module_vars, thread_id>>

\* One stage of the run returns: its update is merged, the state is saved
\* under the thread id, and the run moves along the node's edge or branch.
StageReturns(s) ==
    /\ pc[s] \in DOMAIN Nodes
    /\ \E rt \in RouterResponse :
         LET fn == Nodes[pc[s]]
             st == InvokeNode(fn, turn_state[s], turn[s], rt)
         IN /\ turn_state' = [turn_state EXCEPT ![s] = st]
            /\ checkpoint' = [checkpoint EXCEPT ![thread_id[s]] = st]
            /\ trace' = [trace EXCEPT ![s] = Append(@, fn)]
            /\ classified' = [classified EXCEPT ![s] =
                                    IF fn = "router_node" THEN rt ELSE @]
            /\ pc' = [pc EXCEPT ![s] = Goto(Successor(pc[s], st))]
            /\ outcome' = [outcome EXCEPT ![turn[s]] =
                              RunOutcome(Successor(pc[s], st))]
    /\ sent' = "none"
    /\ UNCHANGED <<sched_vars, module_vars, thread_id, turn, turns>>

\* A generation stage that raises after its reply has been saved.
StageRaises_reply_saved(s) ==
    /\ pc[s] \in DOMAIN Nodes
    /\ Nodes[pc[s]] \in GenerationStages
    /\ trace' = [trace EXCEPT ![s] = Append(@, Nodes[pc[s]])]
    /\ pc' = [pc EXCEPT ![s] = "error"]
    /\ outcome' = [outcome EXCEPT ![turn[s]] = "raised"]
    /\ checkpoint' = [checkpoint EXCEPT ![thread_id[s]] =
                         conversation_node(turn_state[s], turn[s])]
    /\ UNCHANGED <<sched_vars, module_vars, thread_id, turn_state, turn, classified,
                   sent, turns>>

\* A generation stage of the run raises (the other stages absorb their
\* failures): the run stops and nothing of the stage is saved.
StageRaises(s) ==
    /\ pc[s] \in DOMAIN Nodes
    /\ Nodes[pc[s]] \in GenerationStages
    /\ trace' = [trace EXCEPT ![s] = Append(@, Nodes[pc[s]])]
    /\ pc' = [pc EXCEPT ![s] = "error"]
    /\ outcome' = [outcome EXCEPT ![turn[s]] = "raised"]
    /\ sent' = "none"
    /\ UNCHANGED <<sched_vars, module_vars, thread_id, turn_state, turn, classified,
                   checkpoint, turns>>

\* The form on_message answers in, from the state read back for the thread.
ReplyForm(output_state) ==
    IF output_state.workflow = "audio" THEN "audio"
    ELSE IF output_state.workflow = "image" THEN "image"
    ELSE "text"

\* on_message after the run: the state saved for the thread is read back and
\* the reply is sent; a run that failed leaves on_message by its exception.
on_message_end(s) ==
    /\ pc[s] \in {END, "error"}
    /\ sent' = IF pc[s] = END
               THEN ReplyForm(checkpoint[thread_id[s]])
               ELSE "none"
    /\ pc' = [pc EXCEPT ![s] = "idle"]
    \* the handler's locals are gone once it has returned
    /\ turn_state' = [turn_state EXCEPT ![s] = AICompanionState]
    /\ turn' = [turn EXCEPT ![s] = 0]
    /\ trace' = [trace EXCEPT ![s] = <<>>]
    /\ classified' = [classified EXCEPT ![s] = ""]
    /\ UNCHANGED <<sched_vars, module_vars, thread_id, checkpoint, turns,
                   outcome>>

(***************************************************************************)
(* Telegram front-end: the route accepts POST only, and for a POST the     *)
(* handler answers 403 or 200 from the secret-token test and returns; the  *)
(* code below that, which would run the graph, is never reached.           *)
(***************************************************************************)
telegram_handler(token_ok) ==
    /\ sent' = IF token_ok THEN "200 Received Telegram data"
               ELSE "403 Token mismatch"
    /\ turns < MaxTurns
    /\ turns' = turns + 1
    /\ outcome' = [outcome EXCEPT ![turns + 1] = "not_run"]
    /\ UNCHANGED <<sched_vars, module_vars, thread_id, pc, turn_state, turn, trace,
                   classified, checkpoint>>

Next ==
    \/ \E s \in Sessions : on_chat_start(s)
    \/ \E s \in Sessions : on_message_begin(s)
    \/ \E s \in Sessions : StageReturns(s)
    \/ \E s \in Sessions : StageRaises(s)
    \/ \E s \in Sessions : on_message_end(s)
    \/ \E token_ok \in BOOLEAN : telegram_handler(token_ok)

Spec == Init /\ [][Next]_vars

(***************************************************************************)
(* The schedule look-up on its own: the table is any of the tables         *)
(* followed, and get_current_activity is called at any clock reading.      *)
(***************************************************************************)
CallGetCurrentActivity(current_day, current_time) ==
    LET call == [day |-> current_day, time |-> current_time,
                 activity |-> get_current_activity(SCHEDULE, current_day,
                                                   current_time)]
    IN /\ last_call' = call
       /\ kept_call' \in {kept_call, last_call}
       /\ UNCHANGED <<SCHEDULE, front_vars, module_vars>>

InitSchedule ==
    /\ InitFrontEnds
    /\ InitModules
    /\ SCHEDULE \in ScheduleTables
    /\ last_call = NoCall
    /\ kept_call = NoCall

NextSchedule ==
    \E current_day \in Days, current_time \in Times :
        CallGetCurrentActivity(current_day, current_time)

SpecSchedule == InitSchedule /\ [][NextSchedule]_vars

(***************************************************************************)
(* Speech synthesis on its own: synthesize is called with any of the texts *)
(* followed, and the client answers in any of its ways.                    *)
(***************************************************************************)
CallSynthesize(text, convert) ==
    /\ synthesized' = synthesize(text, convert)
    /\ UNCHANGED <<sched_vars, front_vars, generated, parsed, audio_buf,
                   chunk_log, transcribed>>

InitIdle ==
    /\ InitFrontEnds
    /\ InitSchedules
    /\ InitModules

NextSpeech ==
    \E text \in Texts, convert \in ConvertOutcomes :
        CallSynthesize(text, convert)

SpecSpeech == InitIdle /\ [][NextSpeech]_vars

(***************************************************************************)
(* Image generation on its own.                                            *)
(***************************************************************************)
CallGenerateImage(prompt, output_path, response) ==
    /\ generated' = generate_image(prompt, output_path, response)
    /\ UNCHANGED <<sched_vars, front_vars, synthesized, parsed, audio_buf,
                   chunk_log, transcribed>>

CallCreateScenario(history_ok, answer) ==
    /\ generated' = create_scenario(history_ok, answer)
    /\ UNCHANGED <<sched_vars, front_vars, synthesized, parsed, audio_buf,
                   chunk_log, transcribed>>

NextImage ==
    \/ \E prompt \in Prompts, output_path \in OutputPaths,
          response \in ImageResponses :
           CallGenerateImage(prompt, output_path, response)
    \/ \E history_ok \in BOOLEAN, answer \in ScenarioAnswers :
           CallCreateScenario(history_ok, answer)

SpecImage == InitIdle /\ [][NextImage]_vars

(***************************************************************************)
(* The output parser on its own: the model hands it any of the texts.      *)
(***************************************************************************)
CallParse(text) ==
    /\ parsed' = [text |-> text, result |-> parse(text), called |-> TRUE]
    /\ UNCHANGED <<sched_vars, front_vars, synthesized, generated, audio_buf,
                   chunk_log, transcribed>>

NextParser == \E text \in Strings : CallParse(text)

SpecParser == InitIdle /\ [][NextParser]_vars

(***************************************************************************)
(* Audio recording of one Chainlit session.                                *)
(***************************************************************************)
\* on_audio_chunk with the buffer of the session kept at a start chunk.
on_audio_chunk_keeps_buffer(isStart, data) ==
    /\ Len(chunk_log) < MaxChunks
    /\ LET buffer == IF isStart /\ audio_buf = NoBuffer THEN <<>>
                     ELSE audio_buf
       IN IF buffer = NoBuffer
          THEN /\ audio_buf' = audio_buf
               /\ chunk_log' = Append(chunk_log,
                      [isStart |-> isStart, data |-> data,
                       raised |-> "AttributeError"])
          ELSE /\ audio_buf' = Append(buffer, data)
               /\ chunk_log' = Append(chunk_log,
                      [isStart |-> isStart, data |-> data, raised |-> ""])
    /\ transcribed' = NoTranscription
    /\ UNCHANGED <<sched_vars, front_vars, synthesized, generated, parsed>>

\* on_audio_chunk: a start chunk puts a fresh buffer into the session; the
\* data is then written to the buffer of the session, and with no buffer
\* there (None) the write raises AttributeError.
on_audio_chunk(isStart, data) ==
    /\ Len(chunk_log) < MaxChunks
    /\ LET buffer == IF isStart THEN <<>> ELSE audio_buf
       IN IF buffer = NoBuffer
          THEN /\ audio_buf' = audio_buf
               /\ chunk_log' = Append(chunk_log,
                      [isStart |-> isStart, data |-> data,
                       raised |-> "AttributeError"])
          ELSE /\ audio_buf' = Append(buffer, data)
               /\ chunk_log' = Append(chunk_log,
                      [isStart |-> isStart, data |-> data, raised |-> ""])
    /\ transcribed' = NoTranscription
    /\ UNCHANGED <<sched_vars, front_vars, synthesized, generated, parsed>>

\* on_audio_end: the buffer is read from its start and handed to the
\* transcription; the handler then runs the graph on the transcription and
\* sends the synthesized reply, or raises on the way.  With no buffer in the
\* session the seek raises and nothing is transcribed.  The buffer stays in
\* the session, its position at its end.
on_audio_end(replied) ==
    /\ transcribed' =
          IF audio_buf = NoBuffer
          THEN [audio_data |-> <<>>, raised |-> "AttributeError",
                reply |-> "none"]
          ELSE [audio_data |-> audio_buf,
                raised |-> IF replied THEN "" ELSE "Exception",
                reply |-> IF replied THEN "audio" ELSE "none"]
    /\ UNCHANGED <<sched_vars, front_vars, synthesized, generated, parsed,
                   audio_buf, chunk_log>>

NextAudio ==
    \/ \E isStart \in BOOLEAN, data \in ChunkData :
           on_audio_chunk(isStart, data)
    \/ \E replied \in BOOLEAN : on_audio_end(replied)

SpecAudio == InitIdle /\ [][NextAudio]_vars

(***************************************************************************)
(* Vocabulary of the properties.                                           *)
(***************************************************************************)
Range(seq) == {seq[i] : i \in DOMAIN seq}

\* The generation stages run so far in the turn of session s.
GenerationRuns(s) == {i \in DOMAIN trace[s] : trace[s][i] \in GenerationStages}

\* The graph run of session s is over (on_message has not returned yet).
TurnOver(s) == pc[s] \in {END, "error"}

\* A stage of the turn of session s raised.
Raised(s) == turn[s] # 0 /\ outcome[turn[s]] = "raised"

\* The graph run of session s stands at a stage.
InFlight(s) == pc[s] \in DOMAIN Nodes

StageOrder == <<"memory_extraction_node", "router_node",
                "context_injection_node", "memory_injection_node">>

(***************************************************************************)
(* C1.  In every turn that is over and in which no stage raised, exactly   *)
(* one generation stage has run, whatever workflow the classifier stage    *)
(* left (audio included).                                                  *)
(***************************************************************************)
C1_ExactlyOneGenerationStage ==
    \A s \in Sessions :
        (TurnOver(s) /\ ~Raised(s)) => Cardinality(GenerationRuns(s)) = 1

(***************************************************************************)
(* C2.  The stages of a turn run in the order memory extraction, router,   *)
(* context injection, memory injection; a generation stage runs only after *)
(* those four; memory extraction is the first stage to run; no stage runs  *)
(* twice in a turn.                                                        *)
(***************************************************************************)
C2_FixedStageOrder ==
    \A s \in Sessions :
        /\ \A i \in DOMAIN trace[s] :
              /\ i <= Len(StageOrder) => trace[s][i] = StageOrder[i]
              /\ trace[s][i] \in GenerationStages => i = Len(StageOrder) + 1
        /\ \A i, j \in DOMAIN trace[s] : trace[s][i] = trace[s][j] => i = j
        /\ (InFlight(s) /\ trace[s] = <<>>) => Nodes[pc[s]] = StageOrder[1]
        /\ InFlight(s) => Nodes[pc[s]] \notin Range(trace[s])

C2_Witness ==
    \E s \in Sessions :
        /\ pc[s] = END
        /\ Len(trace[s]) = Len(StageOrder) + 1
        /\ trace[s][Len(trace[s])] \in GenerationStages

(***************************************************************************)
(* C3.  A turn whose stages all return reaches END: once a generation      *)
(* stage has returned, the run stands at END or at the summarize stage,    *)
(* the summarize stage is a node of the graph, and it leads to END.        *)
(***************************************************************************)
C3_EveryTurnReachesEnd ==
    \A s \in Sessions :
        (GenerationRuns(s) # {} /\ ~Raised(s)) =>
            /\ pc[s] \in {END, "summarize_conversation_node"}
            /\ pc[s] = "summarize_conversation_node" =>
                  /\ pc[s] \in DOMAIN Nodes
                  /\ Successor(pc[s], turn_state[s]) = END

(***************************************************************************)
(* C4.  For any thread id at most one pipeline is in flight: two runs      *)
(* standing at a stage never belong to the same thread id.                 *)
(***************************************************************************)
C4_AtMostOnePipelinePerThread ==
    \A s1, s2 \in Sessions :
        (s1 # s2 /\ InFlight(s1) /\ InFlight(s2)) =>
            thread_id[s1] # thread_id[s2]

NoReplyOfAbortedTurn ==
    \A k \in 1..MaxTurns :
        outcome[k] = "raised" =>
            \A t \in ThreadIds : AIMessage(k) \notin Range(checkpoint[t].messages)

StartsFromSavedState ==
    \A s \in Sessions :
        (pc[s] = "idle" /\ pc'[s] # "idle") =>
            /\ turn_state'[s].messages =
                  Append(checkpoint[thread_id[s]].messages,
                         HumanMessage(turn'[s]))
            /\ \A f \in {"summary", "workflow", "audio_buffer", "image_path"} :
                  turn_state'[s][f] = checkpoint[thread_id[s]][f]

C6_AbortedTurnLeavesNoReply ==
    [](NoReplyOfAbortedTurn) /\ [][StartsFromSavedState]_vars

\* A message was handled to END after an earlier turn of the same thread
\* was aborted by its generation stage; its run began from the saved state,
\* which holds the aborted turn's incoming message and no reply to it.
C6_Witness ==
    \E s \in Sessions, k \in 1..MaxTurns :
        /\ outcome[k] = "raised"
        /\ turn[s] > k
        /\ pc[s] = END
        /\ HumanMessage(k) \in Range(turn_state[s].messages)
        /\ AIMessage(k) \notin Range(turn_state[s].messages)

(***************************************************************************)
(* C7.  In the state saved for a thread once every turn so far has run to  *)
(* END and every handler has returned, audio_buffer is set only if         *)
(* workflow is audio and image_path is set only if workflow is image.      *)
(***************************************************************************)
C7_ArtifactsMatchWorkflow ==
    ((\A s \in Sessions : pc[s] = "idle")
        /\ (\A k \in 1..turns : outcome[k] \in {END, "not_run"})) =>
    \A t \in ThreadIds :
        /\ checkpoint[t].audio_buffer # 0 => checkpoint[t].workflow = "audio"
        /\ checkpoint[t].image_path # 0 => checkpoint[t].workflow = "image"

(***************************************************************************)
(* Vocabulary of the schedule properties: the range as the schedule's      *)
(* author reads it, both ends included, wrapping midnight when it starts   *)
(* later than it ends.                                                     *)
(***************************************************************************)
Wraps(time_range) == time_range[1] > time_range[2]

Covers(time_range, t) ==
    IF Wraps(time_range)
    THEN t >= time_range[1] \/ t <= time_range[2]
    ELSE time_range[1] <= t /\ t <= time_range[2]

Called == last_call # NoCall

CalledSchedule == SCHEDULE[last_call.day]

(***************************************************************************)
(* C8.  For a range that wraps midnight, get_current_activity returns the  *)
(* range's activity at every time at or after its start and at every time  *)
(* at or before its end (no earlier entry covering that time), and does    *)
(* not return it at a time strictly between its end and its start.         *)
(***************************************************************************)
C8_WrapRangeMatches ==
    Called =>
        \A i \in DOMAIN CalledSchedule :
            Wraps(CalledSchedule[i]) =>
                /\ (/\ Covers(CalledSchedule[i], last_call.time)
                    /\ \A j \in 1..(i - 1) :
                          ~Covers(CalledSchedule[j], last_call.time))
                   => last_call.activity = i
                /\ ~Covers(CalledSchedule[i], last_call.time)
                   => last_call.activity # i

(***************************************************************************)
(* C9.  For every range of the day's schedule, wrapping or not, a current  *)
(* time equal to its start or to its end makes get_current_activity return *)
(* an activity, and that range's activity when no other range covers the   *)
(* time.                                                                   *)
(***************************************************************************)
C9_BoundaryResolves ==
    Called =>
        \A i \in DOMAIN CalledSchedule :
            last_call.time \in {CalledSchedule[i][1], CalledSchedule[i][2]} =>
                /\ last_call.activity # NoActivity
                /\ (\A j \in DOMAIN CalledSchedule :
                       j # i => ~Covers(CalledSchedule[j], last_call.time))
                   => last_call.activity = i

Synthesized == synthesized # NoSynthesis

\* The text is empty or of whitespace only.
Blank(text) == len(strip(text)) = 0

\* generate_image has been called.
ImageRequested == generated.op = "generate_image"

(***************************************************************************)
(* C11.  A synthesize call with an empty or whitespace-only text fails     *)
(* with the validation error (ValueError) and the client is not called.    *)
(***************************************************************************)
C11_BlankTextRejectedBeforeClient ==
    (Synthesized /\ Blank(synthesized.text)) =>
        /\ synthesized.raised = "ValueError"
        /\ synthesized.convert_text = NoText
        /\ ~synthesized.audio

\* A text of whitespace only was handed to synthesize and rejected.
C11_Witness ==
    /\ Synthesized
    /\ Blank(synthesized.text)
    /\ len(synthesized.text) > 0
    /\ synthesized.raised = "ValueError"
    /\ synthesized.convert_text = NoText

(***************************************************************************)
(* C12, as stated.  A text longer than 5000 characters fails with          *)
(* TextToSpeechError and nothing is handed to the client, and a non-empty  *)
(* text of at most 5000 characters passes the checks and is handed to the  *)
(* client unchanged.                                                       *)
(***************************************************************************)
C12_OverLengthIsTextToSpeechError ==
    Synthesized =>
        /\ len(synthesized.text) > MAX_TEXT_LENGTH =>
              /\ synthesized.raised = "TextToSpeechError"
              /\ synthesized.convert_text = NoText
              /\ ~synthesized.audio
        /\ (len(synthesized.text) > 0
               /\ len(synthesized.text) <= MAX_TEXT_LENGTH) =>
              /\ synthesized.raised # "ValueError"
              /\ synthesized.convert_text = synthesized.text

(***************************************************************************)
(* C12, amended.  A text longer than 5000 characters fails with ValueError *)
(* and nothing is handed to the client, and a text of at most 5000         *)
(* characters that is not of whitespace only passes the checks and is      *)
(* handed to the client unchanged.                                         *)
(***************************************************************************)
C12_OverLengthIsValueError ==
    Synthesized =>
        /\ len(synthesized.text) > MAX_TEXT_LENGTH =>
              /\ synthesized.raised = "ValueError"
              /\ synthesized.convert_text = NoText
              /\ ~synthesized.audio
        /\ (~Blank(synthesized.text)
               /\ len(synthesized.text) <= MAX_TEXT_LENGTH) =>
              /\ synthesized.raised # "ValueError"
              /\ synthesized.convert_text = synthesized.text

\* A text whose stripped part is within the limit and whose full length is
\* over it was rejected, nothing of it handed to the client.
C12_Witness ==
    /\ Synthesized
    /\ len(strip(synthesized.text)) <= MAX_TEXT_LENGTH
    /\ len(synthesized.text) > MAX_TEXT_LENGTH
    /\ synthesized.raised = "ValueError"
    /\ synthesized.convert_text = NoText

(***************************************************************************)
(* C13.  A generate_image call with an empty or whitespace-only prompt is  *)
(* rejected before the image client is called and before any file is       *)
(* written.                                                                *)
(***************************************************************************)
C13_BlankPromptRejectedFirst ==
    (ImageRequested /\ Blank(generated.prompt)) =>
        /\ generated.raised # ""
        /\ ~generated.called
        /\ ~generated.file_written
        /\ generated.returned = "nothing"

\* A whitespace-only prompt came with an output path and a client that
\* would have answered with an image; it was rejected.
C13_Witness ==
    /\ ImageRequested
    /\ Blank(generated.prompt)
    /\ len(generated.prompt) > 0
    /\ generated.output_path # ""
    /\ generated.answer = "image"
    /\ generated.raised = "ValueError"
    /\ ~generated.called

(***************************************************************************)
(* C14.  On the image path every failure ends in TextToImageError and      *)
(* returns no image bytes: a failed scenario creation, a failed image      *)
(* generation call, an empty image prompt, an empty image payload.         *)
(***************************************************************************)
ImageFailure ==
    \/ /\ generated.op = "generate_image"
       /\ \/ Blank(generated.prompt)
          \/ generated.answer \in {"raises", "empty"}
    \/ /\ generated.op = "create_scenario"
       /\ generated.answer \in {"raises", "empty_prompt"}

C14_EveryFailureIsTextToImageError ==
    ImageFailure =>
        /\ generated.raised = "TextToImageError"
        /\ generated.returned = "nothing"

(***************************************************************************)
(* C15.  Every message a front-end accepts (a Telegram POST with the right *)
(* secret token, a Chainlit on_message) has the workflow run on it and is  *)
(* then answered with one reply in the form of the workflow of its turn.   *)
(***************************************************************************)
TelegramMessageIsRun ==
    sent = "200 Received Telegram data" => outcome[turns] # "not_run"

ChainlitReplyInTurnForm ==
    \A s \in Sessions :
        (TurnOver(s) /\ pc'[s] = "idle") => sent' = ReplyForm(turn_state[s])

C15_AcceptedMessageRunAndAnswered ==
    [](TelegramMessageIsRun) /\ [][ChainlitReplyInTurnForm]_vars

(***************************************************************************)
(* C16.  Each conversation keeps one thread id for all its messages, two   *)
(* conversations have different thread ids, and a step of the turn of one  *)
(* conversation leaves the state saved for every other conversation as it  *)
(* is.                                                                     *)
(***************************************************************************)
DistinctThreadIds ==
    \A s1, s2 \in Sessions :
        (s1 # s2 /\ thread_id[s1] # 0 /\ thread_id[s2] # 0) =>
            thread_id[s1] # thread_id[s2]

KeepsThreadId ==
    \A s \in Sessions : thread_id[s] # 0 => thread_id'[s] = thread_id[s]

\* Session s takes the step.
Acting(s) == pc'[s] # pc[s] \/ trace'[s] # trace[s]

OthersUntouched ==
    \A s1, s2 \in Sessions :
        (s1 # s2 /\ Acting(s1) /\ thread_id[s2] # 0) =>
            /\ checkpoint'[thread_id[s2]].messages =
                  checkpoint[thread_id[s2]].messages
            /\ checkpoint'[thread_id[s2]].summary =
                  checkpoint[thread_id[s2]].summary

C16_ConversationsAreSeparate ==
    [](DistinctThreadIds) /\ [][KeepsThreadId /\ OthersUntouched]_vars

(***************************************************************************)
(* C17, as stated.  The text the parser returns has no two asterisks on    *)
(* one line; it is the text it was given with every asterisk-delimited     *)
(* span of one line taken out and nothing else; parsing it again returns   *)
(* it unchanged.                                                           *)
(***************************************************************************)
Parsed == parsed.called

\* Two asterisks on one line of the text.
HasPair(text) ==
    \E i, j \in DOMAIN text :
        /\ i < j
        /\ text[i] = "*"
        /\ text[j] = "*"
        /\ \A k \in (i + 1)..(j - 1) : text[k] # "\n"

C17_OnlySpansRemoved ==
    Parsed =>
        /\ ~HasPair(parsed.result)
        /\ parsed.result = re_sub(parsed.text)
        /\ parse(parsed.result) = parsed.result

(***************************************************************************)
(* C17, amended.  The text the parser returns has no two asterisks on one  *)
(* line; it is the text it was given with every asterisk-delimited span of *)
(* one line taken out and then the whitespace at its two ends taken off;   *)
(* parsing it again returns it unchanged.                                  *)
(***************************************************************************)
C17_SpansRemovedThenStripped ==
    Parsed =>
        /\ ~HasPair(parsed.result)
        /\ parsed.result = str_strip(re_sub(parsed.text))
        /\ parsed.result = <<>> \/
              (Head(parsed.result) \notin Whitespace
                  /\ parsed.result[Len(parsed.result)] \notin Whitespace)
        /\ parse(parsed.result) = parsed.result

\* A text with a span and with whitespace outside it at an end: the span is
\* gone, and so is the whitespace.
C17_Witness ==
    /\ Parsed
    /\ HasPair(parsed.text)
    /\ parsed.text[1] \in Whitespace
    /\ parsed.result # <<>>
    /\ Len(parsed.result) < Len(re_sub(parsed.text))

(***************************************************************************)
(* C18.  What on_audio_end hands to the transcription is the data of the   *)
(* chunks received from the latest start chunk on, in the order they came, *)
(* and nothing received before that chunk; a chunk that comes before any   *)
(* start chunk raises and is written nowhere.                              *)
(***************************************************************************)
\* Index of the latest start chunk of the log, 0 if there is none.
LastStart(log) ==
    LET starts == {i \in DOMAIN log : log[i].isStart}
    IN IF starts = {} THEN 0
       ELSE CHOOSE i \in starts : \A j \in starts : j <= i

\* The data of the chunks from the latest start chunk on.
Recording(log) ==
    [i \in 1..(Len(log) - LastStart(log) + 1) |->
        log[LastStart(log) + i - 1].data]

\* on_audio_end handed the buffer to the transcription.
Transcribed ==
    transcribed # NoTranscription /\ transcribed.raised # "AttributeError"

C18_TranscribesFromLatestStart ==
    /\ Transcribed =>
          /\ LastStart(chunk_log) # 0
          /\ transcribed.audio_data = Recording(chunk_log)
    /\ \A i \in DOMAIN chunk_log :
          (\A j \in 1..i : ~chunk_log[j].isStart) =>
              chunk_log[i].raised = "AttributeError"
    /\ (LastStart(chunk_log) = 0) => audio_buf = NoBuffer

\* A recording was started twice; what was transcribed is the second start
\* chunk and the chunk after it, and the reply was sent.
C18_Witness ==
    /\ Transcribed
    /\ Len(chunk_log) = 3
    /\ chunk_log[1].isStart
    /\ chunk_log[2].isStart
    /\ ~chunk_log[3].isStart
    /\ transcribed.audio_data = <<chunk_log[2].data, chunk_log[3].data>>
    /\ transcribed.reply = "audio"

TypeOK ==
    /\ thread_id \in [Sessions -> {0} \cup ThreadIds]
    /\ pc \in [Sessions -> {"idle", END, "error"} \cup DOMAIN Nodes]
    /\ turns \in 0..MaxTurns
====
